---- MODULE Spec2Model ----
(***************************************************************************)
(* Credit ledger of wikiwands-cloud-functions (functions/src/credits.ts)   *)
(* and the handlers that call it.  The Firestore document credits/{uid}    *)
(* is the only shared state.  Every ledger operation runs its body inside  *)
(* db.runTransaction: transaction.get reads the document, the body         *)
(* computes the write, and the commit is applied only when the document    *)
(* is still the one that was read; otherwise the store re-runs the body.   *)
(* getOrCreateCreditsDoc and onUserCreate write with a plain set().        *)
(***************************************************************************)
EXTENDS Integers, FiniteSets, Sequences, TLC

\* ---------------------------------------------------------------- bounds
\* Writes a run may commit; every write takes one tick of the clock.
MaxClock == 2

\* Instants the wall clock (new Date()) can show while a snapshot pair is
\* diffed.
MaxTime == 3
\* Longest purchase list of one product in a drawn snapshot.
MaxPurchases == 2
\* Deliveries of one purchase notification.
MaxDeliveries == 2

\* ------------------------------------------------------------- constants
MONTHLY_GIFT_CREDIT == 10
NON_SUBSCRIPTION_PURCHASE_CREDIT == 10
USE_CREDITS_AMOUNT == 5

\* Calls on different uids touch different documents; one uid carries
\* every interleaving the ledger has.
Uids == {"u1"}
\* Calls in flight at once: the consume-only specification runs all of
\* Procs, the others run Callers.
Procs == {1, 2, 3}
Callers == {1, 2}
\* Amounts the callers pass.
UseAmounts == {3, USE_CREDITS_AMOUNT}
RefundAmounts == {2, 5}
PaidAmounts == {NON_SUBSCRIPTION_PURCHASE_CREDIT}

\* last_gift_reset is an optional field: NoStamp stands for "absent".
NoStamp == -1

VARIABLES
  credits,   \* credits[uid]: the document credits/{uid}
  users,     \* users[uid]: TRUE once onUserCreate wrote users/{uid}
  clock,     \* server time; every write is stamped with it and advances it
  pc,        \* pc[p]: position of call p
  call,      \* call[p]: operation, uid and amount of the running call
  snap,      \* snap[p]: the snapshot the call last read
  result,    \* the response returned by the last step, NoResult if it returned none
  initial,   \* history: the store when the run started
  spent,     \* history: spent[uid] = sum of the amounts of successful useCredits
  diff,      \* a snapshot pair of users/{uid} and what the handler's diff made of it
  handler    \* handler[p]: the onUpdate handler that process p is running

vars ==
  <<credits, users, clock, pc, call, snap, result, initial, spent, diff,
    handler>>

\* ------------------------------------------------------------- documents
CreditsDoc(g, p, r, t) ==
  [exists |-> TRUE, gift_credit |-> g, paid_credit |-> p,
   last_gift_reset |-> r, updatedAt |-> t]

NoDoc ==
  [exists |-> FALSE, gift_credit |-> 0, paid_credit |-> 0,
   last_gift_reset |-> NoStamp, updatedAt |-> 0]

Min(a, b) == IF a < b THEN a ELSE b
Max(a, b) == IF a > b THEN a ELSE b

NoCall == [op |-> "none", uid |-> "u1", amount |-> 0]
NoResult ==
  [op |-> "none", uid |-> "u1", amount |-> 0, code |-> "none",
   usedGift |-> 0, usedPaid |-> 0]

Outcome(code, ug, up, d) ==
  [code |-> code, usedGift |-> ug, usedPaid |-> up, doc |-> d]

\* ------------------------------------------- transaction bodies (pure)
\* Each body maps the snapshot read by transaction.get to the error it
\* throws or to the document it writes.

resetGiftAccumulates(d, now) ==
  IF ~d.exists
    THEN Outcome("ok", 0, 0, CreditsDoc(MONTHLY_GIFT_CREDIT, 0, now, now))
    ELSE Outcome("ok", 0, 0,
           [d EXCEPT !.gift_credit = d.gift_credit + MONTHLY_GIFT_CREDIT,
                     !.last_gift_reset = now, !.updatedAt = now])

resetZeroesPaid(d, now) ==
  IF ~d.exists
    THEN Outcome("ok", 0, 0, CreditsDoc(MONTHLY_GIFT_CREDIT, 0, now, now))
    ELSE Outcome("ok", 0, 0,
           [d EXCEPT !.gift_credit = MONTHLY_GIFT_CREDIT, !.paid_credit = 0,
                     !.last_gift_reset = now, !.updatedAt = now])

resetGiftCreditBody(d, now) ==
  IF ~d.exists
    THEN Outcome("ok", 0, 0, CreditsDoc(MONTHLY_GIFT_CREDIT, 0, now, now))
    ELSE Outcome("ok", 0, 0,
           [d EXCEPT !.gift_credit = MONTHLY_GIFT_CREDIT,
                     !.last_gift_reset = now, !.updatedAt = now])

clearGiftForgetsReset(d, now) ==
  IF ~d.exists
    THEN Outcome("ok", 0, 0, CreditsDoc(0, 0, NoStamp, now))
    ELSE Outcome("ok", 0, 0,
           [d EXCEPT !.gift_credit = 0, !.last_gift_reset = NoStamp,
                     !.updatedAt = now])

clearGiftCreditBody(d, now) ==
  IF ~d.exists
    THEN Outcome("ok", 0, 0, CreditsDoc(0, 0, NoStamp, now))
    ELSE Outcome("ok", 0, 0, [d EXCEPT !.gift_credit = 0, !.updatedAt = now])

addPaidOverwrites(d, amount, now) ==
  IF ~d.exists
    THEN Outcome("ok", 0, 0, CreditsDoc(0, amount, NoStamp, now))
    ELSE Outcome("ok", 0, 0,
           [d EXCEPT !.paid_credit = amount, !.updatedAt = now])

addPaidCreditBody(d, amount, now) ==
  IF ~d.exists
    THEN Outcome("ok", 0, 0, CreditsDoc(0, amount, NoStamp, now))
    ELSE Outcome("ok", 0, 0,
           [d EXCEPT !.paid_credit = d.paid_credit + amount,
                     !.updatedAt = now])

\* Gift first, then paid (credits.ts, "先用 gift_credit，再用 paid_credit").
AllocatePaidFirst(currentGift, currentPaid, amount) ==
  LET usedPaid == IF currentPaid > 0 THEN Min(currentPaid, amount) ELSE 0
      remaining == amount - usedPaid
      usedGift == IF remaining > 0 /\ currentGift > 0
                    THEN Min(currentGift, remaining) ELSE 0
  IN [usedGift |-> usedGift, usedPaid |-> usedPaid]

Allocate(currentGift, currentPaid, amount) ==
  LET usedGift == IF currentGift > 0 THEN Min(currentGift, amount) ELSE 0
      remaining == amount - usedGift
      usedPaid == IF remaining > 0 /\ currentPaid > 0
                    THEN Min(currentPaid, remaining) ELSE 0
  IN [usedGift |-> usedGift, usedPaid |-> usedPaid]

InsufficientLax(total, amount) == total + 1 < amount

Insufficient(total, amount) == total < amount

useCreditsAutoCreate(d, amount, now) ==
  IF Insufficient(d.gift_credit + d.paid_credit, amount)
    THEN Outcome("failed-precondition", 0, 0, d)
  ELSE
    LET a == Allocate(d.gift_credit, d.paid_credit, amount)
    IN Outcome("ok", a.usedGift, a.usedPaid,
         CreditsDoc(d.gift_credit - a.usedGift, d.paid_credit - a.usedPaid,
                    d.last_gift_reset, now))

useCreditsBody(d, amount, now) ==
  IF ~d.exists THEN Outcome("not-found", 0, 0, d)
  ELSE IF Insufficient(d.gift_credit + d.paid_credit, amount)
    THEN Outcome("failed-precondition", 0, 0, d)
  ELSE
    LET a == Allocate(d.gift_credit, d.paid_credit, amount)
        g == IF a.usedGift > 0 THEN d.gift_credit - a.usedGift
                               ELSE d.gift_credit
        q == IF a.usedPaid > 0 THEN d.paid_credit - a.usedPaid
                               ELSE d.paid_credit
    IN Outcome("ok", a.usedGift, a.usedPaid,
         [d EXCEPT !.gift_credit = g, !.paid_credit = q, !.updatedAt = now])

refundUnclamped(d, amount, now) ==
  IF ~d.exists THEN Outcome("not-found", 0, 0, d)
  ELSE Outcome("ok", 0, 0,
         [d EXCEPT !.paid_credit = d.paid_credit - amount, !.updatedAt = now])

refundAddsBack(d, amount, now) ==
  IF ~d.exists THEN Outcome("not-found", 0, 0, d)
  ELSE Outcome("ok", 0, 0,
         [d EXCEPT !.paid_credit = d.paid_credit + amount, !.updatedAt = now])

refundCreatesDoc(d, amount, now) ==
  IF ~d.exists THEN Outcome("ok", 0, 0, CreditsDoc(0, 0, NoStamp, now))
  ELSE Outcome("ok", 0, 0,
         [d EXCEPT !.paid_credit = Max(0, d.paid_credit - amount),
                   !.updatedAt = now])

refundCreditsBody(d, amount, now) ==
  IF ~d.exists THEN Outcome("not-found", 0, 0, d)
  ELSE Outcome("ok", 0, 0,
         [d EXCEPT !.paid_credit = Max(0, d.paid_credit - amount),
                   !.updatedAt = now])

Body(op, d, amount, now) ==
  CASE op = "resetGiftCredit" -> resetGiftCreditBody(d, now)
    [] op = "clearGiftCredit" -> clearGiftCreditBody(d, now)
    [] op = "addPaidCredit"   -> addPaidCreditBody(d, amount, now)
    [] op = "useCredits"      -> useCreditsBody(d, amount, now)
    [] op = "refundCredits"   -> refundCreditsBody(d, amount, now)

\* The useCredits callable rethrows not-found and failed-precondition
\* under their own code and anything else as internal.
useCreditsCallableCode(code) ==
  IF code = "not-found" THEN "not-found"
  ELSE IF code = "failed-precondition" THEN "failed-precondition"
  ELSE IF code = "ok" THEN "ok"
  ELSE "internal"

\* ------------------------------------------------ db.runTransaction
\* An attempt starts with transaction.get.  A body that throws ends the
\* call at once, with nothing written; otherwise the write waits for the
\* commit.  First attempts come from an idle caller, later ones from a
\* caller whose commit was refused.
CanStart(p, op, u, a) ==
  \/ pc[p] = "idle"
  \/ pc[p] = "retry" /\ call[p].op = op /\ call[p].uid = u /\ call[p].amount = a

Finish(op, u, a, out) ==
  result' =
    [op |-> op, uid |-> u, amount |-> a, code |-> out.code,
     usedGift |-> out.usedGift, usedPaid |-> out.usedPaid]

TransactionGet(p, op, u, a) ==
  /\ CanStart(p, op, u, a)
  /\ LET d == credits[u]
         out == Body(op, d, a, clock)
     IN IF out.code = "ok"
          THEN /\ pc' = [pc EXCEPT ![p] = "commit"]
               /\ call' = [call EXCEPT ![p] =
                    [op |-> op, uid |-> u, amount |-> a]]
               /\ snap' = [snap EXCEPT ![p] = d]
               /\ result' = NoResult
          ELSE /\ pc' = [pc EXCEPT ![p] = "idle"]
               /\ call' = [call EXCEPT ![p] = NoCall]
               /\ snap' = [snap EXCEPT ![p] = NoDoc]
               /\ Finish(op, u, a, out)
  /\ UNCHANGED <<credits, users, clock, initial, spent>>

\* The store applies the writes only if the document read by the attempt
\* is still the stored one.
BlindCommit(stored, read) == TRUE

CommitAllowed(stored, read) == stored = read

TransactionCommit(p, op) ==
  /\ pc[p] = "commit"
  /\ call[p].op = op
  /\ LET u == call[p].uid
         a == call[p].amount
         out == Body(op, snap[p], a, clock)
     IN IF CommitAllowed(credits[u], snap[p])
          THEN /\ clock <= MaxClock
               /\ credits' = [credits EXCEPT ![u] = out.doc]
               /\ clock' = clock + 1
               /\ spent' = [spent EXCEPT ![u] =
                    @ + (IF op = "useCredits" THEN a ELSE 0)]
               /\ pc' = [pc EXCEPT ![p] = "idle"]
               /\ call' = [call EXCEPT ![p] = NoCall]
               /\ snap' = [snap EXCEPT ![p] = NoDoc]
               /\ Finish(op, u, a, out)
          ELSE /\ pc' = [pc EXCEPT ![p] = "retry"]
               /\ snap' = [snap EXCEPT ![p] = NoDoc]
               /\ result' = NoResult
               /\ UNCHANGED <<credits, clock, spent, call>>
  /\ UNCHANGED <<users, initial>>

\* ------------------------------------------------ ledger operations
resetGiftCredit_get(p, u) == TransactionGet(p, "resetGiftCredit", u, 0)
resetGiftCredit_commit(p) == TransactionCommit(p, "resetGiftCredit")

clearGiftCredit_get(p, u) == TransactionGet(p, "clearGiftCredit", u, 0)
clearGiftCredit_commit(p) == TransactionCommit(p, "clearGiftCredit")

addPaidCredit_get(p, u, a) == TransactionGet(p, "addPaidCredit", u, a)
addPaidCredit_commit(p) == TransactionCommit(p, "addPaidCredit")

useCredits_get(p, u, a) == TransactionGet(p, "useCredits", u, a)
useCredits_commit(p) == TransactionCommit(p, "useCredits")

refundCredits_get(p, u, a) == TransactionGet(p, "refundCredits", u, a)
refundCredits_commit(p) == TransactionCommit(p, "refundCredits")

\* ------------------------------------------------ callables
\* What a client sends: context.auth (absent, or the signed-in uid) and a
\* data object whose fields the client chooses freely.
NoAuth == ""

Number(n) == [typeof |-> "number", value |-> n]

NotANumber == [typeof |-> "undefined", value |-> 0]

ClientData(amount, uid) == [amount |-> amount, uid |-> uid]

\* An HttpsError thrown before any ledger call: nothing is read or written.
Reject(p, op, u, a, code) ==
  /\ pc[p] = "idle"
  /\ Finish(op, u, a, Outcome(code, 0, 0, NoDoc))
  /\ UNCHANGED <<credits, users, clock, pc, call, snap, initial, spent>>

\* useCredits callable: the uid is the signed-in one and the amount is the
\* backend constant; data is not read.
amountFromClient(data) == data.amount.value

useCreditsCallableAmount(data) == USE_CREDITS_AMOUNT

useCreditsCallableUid(auth, data) == auth

useCreditsCallable_get(p, auth, data) ==
  IF auth = NoAuth
    THEN Reject(p, "useCredits", auth, 0, "unauthenticated")
    ELSE useCredits_get(p, useCreditsCallableUid(auth, data),
                        useCreditsCallableAmount(data))

\* refundCredits callable: the amount is data.amount, checked to be a
\* positive number before the ledger is called.
refundCreditsInvalid(amount) ==
  amount.typeof # "number" \/ amount.value <= 0

refundCreditsCallable_get(p, auth, data) ==
  IF auth = NoAuth
    THEN Reject(p, "refundCredits", auth, 0, "unauthenticated")
  ELSE IF refundCreditsInvalid(data.amount)
    THEN Reject(p, "refundCredits", auth, data.amount.value,
                "invalid-argument")
  ELSE refundCredits_get(p, auth, data.amount.value)

\* ------------------------------------- getOrCreateCreditsDoc (getCredits)
\* Plain get; when the document is absent, a plain set of a zero balance
\* and a second get.  No transaction.
getOrCreateCreditsDoc_get(p, u) ==
  /\ pc[p] = "idle"
  /\ IF credits[u].exists
       THEN /\ Finish("getCredits", u, 0, Outcome("ok", 0, 0, credits[u]))
            /\ UNCHANGED <<pc, call, snap>>
       ELSE /\ pc' = [pc EXCEPT ![p] = "set"]
            /\ call' = [call EXCEPT ![p] =
                 [op |-> "getCredits", uid |-> u, amount |-> 0]]
            /\ snap' = [snap EXCEPT ![p] = credits[u]]
            /\ result' = NoResult
  /\ UNCHANGED <<credits, users, clock, initial, spent>>

getOrCreateCreditsDoc_set(p) ==
  /\ pc[p] = "set"
  /\ call[p].op = "getCredits"
  /\ clock <= MaxClock
  /\ credits' = [credits EXCEPT ![call[p].uid] = CreditsDoc(0, 0, NoStamp, clock)]
  /\ clock' = clock + 1
  /\ pc' = [pc EXCEPT ![p] = "get2"]
  /\ snap' = [snap EXCEPT ![p] = NoDoc]
  /\ result' = NoResult
  /\ UNCHANGED <<users, call, initial, spent>>

getOrCreateCreditsDoc_get2(p) ==
  /\ pc[p] = "get2"
  /\ call[p].op = "getCredits"
  /\ Finish("getCredits", call[p].uid, 0,
            Outcome("ok", 0, 0, credits[call[p].uid]))
  /\ pc' = [pc EXCEPT ![p] = "idle"]
  /\ call' = [call EXCEPT ![p] = NoCall]
  /\ UNCHANGED <<credits, users, clock, snap, initial, spent>>

\* ----------------------------------------------------- onUserCreate
\* Fires once per new account: set(users/{uid}, merge), then
\* set(credits/{uid}, {gift_credit: 0, paid_credit: 0, updatedAt}, merge),
\* which overwrites the three fields and keeps any other field.
MergeZero(d, now) ==
  IF d.exists
    THEN [d EXCEPT !.gift_credit = 0, !.paid_credit = 0, !.updatedAt = now]
    ELSE CreditsDoc(0, 0, NoStamp, now)

onUserCreate_setUser(p, u) ==
  /\ pc[p] = "idle"
  /\ ~users[u]
  /\ users' = [users EXCEPT ![u] = TRUE]
  /\ pc' = [pc EXCEPT ![p] = "setCredits"]
  /\ call' = [call EXCEPT ![p] =
       [op |-> "onUserCreate", uid |-> u, amount |-> 0]]
  /\ result' = NoResult
  /\ UNCHANGED <<credits, clock, snap, initial, spent>>

onUserCreate_setCredits(p) ==
  /\ pc[p] = "setCredits"
  /\ clock <= MaxClock
  /\ credits' = [credits EXCEPT ![call[p].uid] = MergeZero(@, clock)]
  /\ clock' = clock + 1
  /\ pc' = [pc EXCEPT ![p] = "idle"]
  /\ call' = [call EXCEPT ![p] = NoCall]
  /\ Finish("onUserCreate", call[p].uid, 0,
            Outcome("ok", 0, 0, credits'[call[p].uid]))
  /\ UNCHANGED <<users, snap, initial, spent>>

\* ------------------------------------------------------ specifications
\* ------------------------------------------- entitlements (pure)
\* users/{uid}.entitlements maps an entitlement key to a record written by
\* the RevenueCat extension.  Of a record the handler reads is_active and
\* expires_date only.  is_active is "true" or "false" when the field is a
\* boolean and "absent" otherwise; expires_date is absent (or null, or
\* empty), a string Date cannot parse, or the instant an ISO string names.
EntitlementKeys == <<"premium", "pro">>
KeySet == {EntitlementKeys[i] : i \in 1..Len(EntitlementKeys)}
KeyIndex(k) == CHOOSE i \in 1..Len(EntitlementKeys) : EntitlementKeys[i] = k

NoDate == [kind |-> "absent", t |-> 0]
BadDate == [kind |-> "invalid", t |-> 0]
IsoDate(t) == [kind |-> "iso", t |-> t]

Entitlement(flag, exp) ==
  [present |-> TRUE, is_active |-> flag, expires_date |-> exp]
NoEntitlement ==
  [present |-> FALSE, is_active |-> "absent", expires_date |-> NoDate]

\* new Date(expiresDate): an instant, or Invalid Date.
ParseDate(s) ==
  IF s.kind = "iso" THEN [valid |-> TRUE, t |-> s.t]
                    ELSE [valid |-> FALSE, t |-> 0]

LaterOrEqual(expiry, now) == expiry.valid /\ expiry.t >= now

\* expiry > now; every comparison with Invalid Date is false.
Later(expiry, now) == expiry.valid /\ expiry.t > now

\* The try block: the log line calls expiry.toISOString(), which throws a
\* RangeError on Invalid Date.
TryExpiry(s, now) ==
  LET expiry == ParseDate(s)
      isActive == Later(expiry, now)
  IN IF ~expiry.valid THEN "throws"
     ELSE IF isActive THEN "true" ELSE "false"

\* What a call of isEntitlementActive does: "true", "false" or "throws".
isEntitlementActiveOutcome(e, now) ==
  IF e.is_active \in {"true", "false"} THEN e.is_active
  ELSE IF e.expires_date.kind = "absent" THEN "false"
  ELSE LET r == TryExpiry(e.expires_date, now)
       IN IF r = "throws" THEN "false" ELSE r

isEntitlementActive(e, now) == isEntitlementActiveOutcome(e, now) = "true"

\* Every call of isEntitlementActive reads new Date() for itself.  T[j] is
\* the instant the j-th possible call sees: for the i-th key the call on
\* the after record, then the call on the before record, and after all
\* keys the calls of the second loop.
SlotAfter(i) == 2 * i - 1
SlotBefore(i) == 2 * i
SlotRemoved(i) == 2 * Len(EntitlementKeys) + i
Slots == 1..(3 * Len(EntitlementKeys))

NoEvents == [activated |-> <<>>, expired |-> <<>>]

\* for (const [entitlementKey, afterEntitlement] of Object.entries(after))
RECURSIVE CheckAll(_, _, _, _, _)
CheckAll(i, before, after, T, acc) ==
  IF i > Len(EntitlementKeys) THEN acc
  ELSE
    LET k == EntitlementKeys[i]
        isNowActive == isEntitlementActive(after[k], T[SlotAfter(i)])
        wasActive ==
          IF before[k].present
            THEN isEntitlementActive(before[k], T[SlotBefore(i)])
            ELSE FALSE
    IN IF ~after[k].present THEN CheckAll(i + 1, before, after, T, acc)
       ELSE IF isNowActive
         THEN IF ~wasActive
                THEN CheckAll(i + 1, before, after, T,
                       [acc EXCEPT !.activated = Append(@, k)])
                ELSE CheckAll(i + 1, before, after, T, acc)
       ELSE IF wasActive
         THEN CheckAll(i + 1, before, after, T,
                [acc EXCEPT !.expired = Append(@, k)])
         ELSE CheckAll(i + 1, before, after, T, acc)

removalIgnored(i, before, after, T, acc) == acc

\* for (const [entitlementKey, beforeEntitlement] of Object.entries(before))
RECURSIVE CheckRemoved(_, _, _, _, _)
CheckRemoved(i, before, after, T, acc) ==
  IF i > Len(EntitlementKeys) THEN acc
  ELSE
    LET k == EntitlementKeys[i]
        wasActive == isEntitlementActive(before[k], T[SlotRemoved(i)])
    IN IF before[k].present /\ ~after[k].present /\ wasActive
         THEN CheckRemoved(i + 1, before, after, T,
                [acc EXCEPT !.expired = Append(@, k)])
         ELSE CheckRemoved(i + 1, before, after, T, acc)

\* The diff of one update: activatedEntitlements and expiredEntitlements.
EntitlementDiff(before, after, T) ==
  CheckRemoved(1, before, after, T, CheckAll(1, before, after, T, NoEvents))

\* What each call of isEntitlementActive in the diff returned; "skipped"
\* for a record the loops do not evaluate.
EvalAfter(before, after, T) ==
  [k \in KeySet |->
     IF after[k].present
       THEN isEntitlementActiveOutcome(after[k], T[SlotAfter(KeyIndex(k))])
       ELSE "skipped"]
EvalBefore(before, after, T) ==
  [k \in KeySet |->
     IF ~before[k].present THEN "skipped"
     ELSE IF after[k].present
       THEN isEntitlementActiveOutcome(before[k], T[SlotBefore(KeyIndex(k))])
       ELSE isEntitlementActiveOutcome(before[k], T[SlotRemoved(KeyIndex(k))])]

Range(s) == {s[i] : i \in 1..Len(s)}

\* ---------------------------------------------- purchases (pure)
\* users/{uid}.non_subscriptions maps a product id to the list of its
\* purchases.  Of a purchase the handler reads id and
\* store_transaction_id; NoId stands for a field that is missing or empty.
ProductKeys == <<"coins", "gems">>
ProductSet == {ProductKeys[i] : i \in 1..Len(ProductKeys)}

NoId == ""
Purchase(id, stid) == [id |-> id, store_transaction_id |-> stid]
PurchaseList(list) == [present |-> TRUE, purchases |-> list]
NoPurchaseList == [present |-> FALSE, purchases |-> <<>>]

\* afterPurchasesArray.length > beforePurchasesArray.length
Grew(afterPurchasesArray, beforePurchasesArray) ==
  Len(afterPurchasesArray) > Len(beforePurchasesArray)

purchaseIdNoFallback(latestPurchase) == latestPurchase.id

\* latestPurchase.id || latestPurchase.store_transaction_id || undefined
PurchaseId(latestPurchase) ==
  IF latestPurchase.id # NoId THEN latestPurchase.id
  ELSE IF latestPurchase.store_transaction_id # NoId
    THEN latestPurchase.store_transaction_id
    ELSE NoId

\* for (const [productId, afterPurchases] of Object.entries(after)); a
\* product missing from before counts as the empty list.
RECURSIVE CheckProducts(_, _, _, _)
CheckProducts(i, before, after, newPurchases) ==
  IF i > Len(ProductKeys) THEN newPurchases
  ELSE
    LET productId == ProductKeys[i]
        beforePurchases == before[productId].purchases
        afterPurchases == after[productId].purchases
    IN IF after[productId].present /\ Grew(afterPurchases, beforePurchases)
         THEN CheckProducts(i + 1, before, after,
                Append(newPurchases,
                  [productId |-> productId,
                   purchaseId |->
                     PurchaseId(afterPurchases[Len(afterPurchases)])]))
         ELSE CheckProducts(i + 1, before, after, newPurchases)

PurchaseDiff(before, after) == CheckProducts(1, before, after, <<>>)

\* --------------------------------------------------- onUpdate handlers
\* handler[p] holds the locals of the running handler: the events its diff
\* found, where it stands (stage), how many ledger calls it has made, and
\* what it returned.  grewBy is history: the number of purchases by which
\* the lists of the update grew.
NoHandler ==
  [name |-> "none", uid |-> "u1", stage |-> "idle",
   activatedEntitlements |-> <<>>, expiredEntitlements |-> <<>>,
   newPurchases |-> 0, grewBy |-> 0,
   resets |-> 0, clears |-> 0, adds |-> 0,
   failed |-> FALSE, returned |-> "none"]

HandlerStart(p) == handler[p].stage \in {"idle", "done"} /\ pc[p] = "idle"

\* The first attempt of a ledger call is the call; re-runs of the
\* transaction body by the store are not calls of the handler.
CountCall(h, op, first) ==
  IF ~first THEN h
  ELSE CASE op = "resetGiftCredit" -> [h EXCEPT !.resets = @ + 1]
         [] op = "clearGiftCredit" -> [h EXCEPT !.clears = @ + 1]
         [] op = "addPaidCredit" -> [h EXCEPT !.adds = @ + 1]

Returned(h) == [h EXCEPT !.stage = "done", !.returned = "null"]

loopStopsAfterFirst(h, op) ==
  CASE op = "resetGiftCredit" ->
         IF h.expiredEntitlements # <<>>
           THEN [h EXCEPT !.stage = "clear"] ELSE Returned(h)
    [] op = "clearGiftCredit" -> Returned(h)
    [] op = "addPaidCredit" -> Returned(h)

\* Where the handler goes when its ledger call op has returned.
AfterCall(h, op) ==
  CASE op = "resetGiftCredit" ->
         IF h.expiredEntitlements # <<>>
           THEN [h EXCEPT !.stage = "clear"] ELSE Returned(h)
    [] op = "clearGiftCredit" -> Returned(h)
    [] op = "addPaidCredit" ->
         IF h.adds < h.newPurchases
           THEN [h EXCEPT !.stage = "add"] ELSE Returned(h)

HandlerCallGet(p, stage, op, a) ==
  /\ handler[p].stage = stage
  /\ TransactionGet(p, op, handler[p].uid, a)
  /\ handler' = [handler EXCEPT ![p] = CountCall(@, op, pc[p] = "idle")]

HandlerCallCommit(p, stage, op) ==
  /\ handler[p].stage = stage
  /\ TransactionCommit(p, op)
  /\ handler' = [handler EXCEPT ![p] =
       IF pc'[p] = "idle" THEN AfterCall(@, op) ELSE @]

\* db.runTransaction rejects (contention beyond the store's attempts, the
\* store unavailable): nothing is written and the ledger function throws.
TransactionRejected(p) ==
  /\ pc[p] \in {"commit", "retry"}
  /\ pc' = [pc EXCEPT ![p] = "idle"]
  /\ result' =
       [op |-> call[p].op, uid |-> call[p].uid, amount |-> call[p].amount,
        code |-> "aborted", usedGift |-> 0, usedPaid |-> 0]
  /\ call' = [call EXCEPT ![p] = NoCall]
  /\ snap' = [snap EXCEPT ![p] = NoDoc]
  /\ UNCHANGED <<credits, users, clock, initial, spent>>

catchRethrows(h) ==
  [h EXCEPT !.stage = "done", !.failed = TRUE, !.returned = "throws"]

\* catch (error) { logger.error(...); return null; }
catchReturnsNull(h) ==
  [h EXCEPT !.stage = "done", !.failed = TRUE, !.returned = "null"]

\* ---- onEntitlementActivated
onEntitlementActivated_diff(p, u, before, after, T) ==
  /\ HandlerStart(p)
  /\ LET ev == EntitlementDiff(before, after, T)
         hasNewlyActivated == ev.activated # <<>>
         hasExpired == ev.expired # <<>>
         h == [NoHandler EXCEPT
                 !.name = "entitlement", !.uid = u,
                 !.activatedEntitlements = ev.activated,
                 !.expiredEntitlements = ev.expired]
     IN handler' = [handler EXCEPT ![p] =
          IF hasNewlyActivated THEN [h EXCEPT !.stage = "reset"]
          ELSE IF hasExpired THEN [h EXCEPT !.stage = "clear"]
          ELSE Returned(h)]
  /\ result' = NoResult
  /\ UNCHANGED <<credits, users, clock, pc, call, snap, initial, spent>>

onEntitlementActivated_reset_get(p) ==
  /\ handler[p].name = "entitlement"
  /\ HandlerCallGet(p, "reset", "resetGiftCredit", 0)
onEntitlementActivated_reset_commit(p) ==
  /\ handler[p].name = "entitlement"
  /\ HandlerCallCommit(p, "reset", "resetGiftCredit")
onEntitlementActivated_clear_get(p) ==
  /\ handler[p].name = "entitlement"
  /\ HandlerCallGet(p, "clear", "clearGiftCredit", 0)
onEntitlementActivated_clear_commit(p) ==
  /\ handler[p].name = "entitlement"
  /\ HandlerCallCommit(p, "clear", "clearGiftCredit")
onEntitlementActivated_catch(p) ==
  /\ handler[p].name = "entitlement"
  /\ handler[p].stage \in {"reset", "clear"}
  /\ TransactionRejected(p)
  /\ handler' = [handler EXCEPT ![p] = catchReturnsNull(@)]

\* ---- onNonSubscriptionPurchase
RECURSIVE GrewBy(_, _, _)
GrewBy(i, before, after) ==
  IF i > Len(ProductKeys) THEN 0
  ELSE
    LET k == ProductKeys[i]
        grown == Len(after[k].purchases) - Len(before[k].purchases)
    IN (IF grown > 0 THEN grown ELSE 0) + GrewBy(i + 1, before, after)

creditedOnlyOnce(p, u, before, after) ==
  /\ HandlerStart(p)
  /\ LET newPurchases ==
           IF credits[u].updatedAt > 0 THEN <<>>
           ELSE PurchaseDiff(before, after)
         h == [NoHandler EXCEPT
                 !.name = "purchase", !.uid = u,
                 !.newPurchases = Len(newPurchases),
                 !.grewBy = GrewBy(1, before, after)]
     IN handler' = [handler EXCEPT ![p] =
          IF Len(newPurchases) > 0 THEN [h EXCEPT !.stage = "add"]
          ELSE Returned(h)]
  /\ result' = NoResult
  /\ UNCHANGED <<credits, users, clock, pc, call, snap, initial, spent>>

onNonSubscriptionPurchase_diff(p, u, before, after) ==
  /\ HandlerStart(p)
  /\ LET newPurchases == PurchaseDiff(before, after)
         h == [NoHandler EXCEPT
                 !.name = "purchase", !.uid = u,
                 !.newPurchases = Len(newPurchases),
                 !.grewBy = GrewBy(1, before, after)]
     IN handler' = [handler EXCEPT ![p] =
          IF Len(newPurchases) > 0 THEN [h EXCEPT !.stage = "add"]
          ELSE Returned(h)]
  /\ result' = NoResult
  /\ UNCHANGED <<credits, users, clock, pc, call, snap, initial, spent>>

onNonSubscriptionPurchase_add_get(p) ==
  /\ handler[p].name = "purchase"
  /\ HandlerCallGet(p, "add", "addPaidCredit", NON_SUBSCRIPTION_PURCHASE_CREDIT)
onNonSubscriptionPurchase_add_commit(p) ==
  /\ handler[p].name = "purchase"
  /\ HandlerCallCommit(p, "add", "addPaidCredit")
onNonSubscriptionPurchase_catch(p) ==
  /\ handler[p].name = "purchase"
  /\ handler[p].stage = "add"
  /\ TransactionRejected(p)
  /\ handler' = [handler EXCEPT ![p] = catchReturnsNull(@)]

\* ---- refreshMonthlyCredits (scheduled)
\* The job's own isEntitlementActive reads expires_date only; it does not
\* log the date, so an unparsable one makes the comparison false.
refreshIsEntitlementActive(expiresDate, now) ==
  IF expiresDate.kind = "absent" THEN FALSE
  ELSE Later(ParseDate(expiresDate), now)

\* Object.values(entitlements).some(...); T[i] is the clock at the call
\* for the i-th key.
hasActiveEntitlement(entitlements, T) ==
  \E i \in 1..Len(EntitlementKeys) :
    /\ entitlements[EntitlementKeys[i]].present
    /\ refreshIsEntitlementActive(
         entitlements[EntitlementKeys[i]].expires_date, T[i])

\* One user document of usersSnapshot.docs.
refreshMonthlyCredits_user(p, u, entitlements, T) ==
  /\ HandlerStart(p)
  /\ LET h == [NoHandler EXCEPT !.name = "refresh", !.uid = u]
     IN handler' = [handler EXCEPT ![p] =
          IF hasActiveEntitlement(entitlements, T)
            THEN [h EXCEPT !.stage = "reset"] ELSE Returned(h)]
  /\ result' = NoResult
  /\ UNCHANGED <<credits, users, clock, pc, call, snap, initial, spent>>

refreshMonthlyCredits_reset_get(p) ==
  /\ handler[p].name = "refresh"
  /\ HandlerCallGet(p, "reset", "resetGiftCredit", 0)
refreshMonthlyCredits_reset_commit(p) ==
  /\ handler[p].name = "refresh"
  /\ HandlerCallCommit(p, "reset", "resetGiftCredit")
\* catch (error) { logger.error(...); errorCount++; } and the loop goes on.
refreshMonthlyCredits_catch(p) ==
  /\ handler[p].name = "refresh"
  /\ handler[p].stage = "reset"
  /\ TransactionRejected(p)
  /\ handler' = [handler EXCEPT ![p] = catchReturnsNull(@)]

\* ---- generateVideo (callable)
\* 1 auth, 2 debit of VIDEO_GENERATION_CREDITS, 3 argument checks,
\* 4 configuration, 5 call of the video provider and saving of the task.
\* A step that throws ends the call with the HttpsError's code.
VIDEO_GENERATION_CREDITS == 5
MAX_SCRIPT_LENGTH == 5000

\* A script is modelled by its length, the other arguments by their text.
VideoRequest(imageUrl, script, avatarId) ==
  [imageUrl |-> imageUrl, script |-> script, avatarId |-> avatarId]

Thrown(h, code) ==
  [h EXCEPT !.stage = "done", !.failed = TRUE, !.returned = code]

generateVideoDebitCode(code) ==
  IF code = "failed-precondition" THEN "failed-precondition"
  ELSE IF code = "not-found" THEN "not-found"
  ELSE "internal"

generateVideoInvalid(data) ==
  \/ data.imageUrl = ""
  \/ data.script = 0
  \/ data.avatarId = ""
  \/ data.script > MAX_SCRIPT_LENGTH

generateVideo_auth(p, auth) ==
  /\ HandlerStart(p)
  /\ handler' = [handler EXCEPT ![p] =
       IF auth = NoAuth
         THEN Thrown([NoHandler EXCEPT !.name = "generateVideo"],
                     "unauthenticated")
         ELSE [NoHandler EXCEPT !.name = "generateVideo", !.uid = auth,
                                !.stage = "debit"]]
  /\ result' = NoResult
  /\ UNCHANGED <<credits, users, clock, pc, call, snap, initial, spent>>

generateVideo_debit_get(p) ==
  /\ handler[p].name = "generateVideo"
  /\ handler[p].stage = "debit"
  /\ TransactionGet(p, "useCredits", handler[p].uid, VIDEO_GENERATION_CREDITS)
  /\ handler' = [handler EXCEPT ![p] =
       IF pc'[p] = "idle"
         THEN Thrown(@, generateVideoDebitCode(result'.code)) ELSE @]

generateVideo_debit_commit(p) ==
  /\ handler[p].name = "generateVideo"
  /\ handler[p].stage = "debit"
  /\ TransactionCommit(p, "useCredits")
  /\ handler' = [handler EXCEPT ![p] =
       IF pc'[p] = "idle" THEN [@ EXCEPT !.stage = "validate"] ELSE @]

generateVideo_debit_catch(p) ==
  /\ handler[p].name = "generateVideo"
  /\ handler[p].stage = "debit"
  /\ TransactionRejected(p)
  /\ handler' = [handler EXCEPT ![p] =
       Thrown(@, generateVideoDebitCode(result'.code))]

generateVideo_validate(p, data) ==
  /\ handler[p].name = "generateVideo"
  /\ handler[p].stage = "validate"
  /\ handler' = [handler EXCEPT ![p] =
       IF generateVideoInvalid(data)
         THEN Thrown(@, "invalid-argument")
         ELSE [@ EXCEPT !.stage = "config"]]
  /\ result' = NoResult
  /\ UNCHANGED <<credits, users, clock, pc, call, snap, initial, spent>>

\* getConfig() returns the configuration or throws.
generateVideo_config(p, configured) ==
  /\ handler[p].name = "generateVideo"
  /\ handler[p].stage = "config"
  /\ handler' = [handler EXCEPT ![p] =
       IF configured THEN [@ EXCEPT !.stage = "provider"]
                     ELSE Thrown(@, "failed-precondition")]
  /\ result' = NoResult
  /\ UNCHANGED <<credits, users, clock, pc, call, snap, initial, spent>>

\* What the provider and the saving of the task can do to the call.
ProviderOutcomes ==
  {"video", "fetch-throws", "http-error", "invalid-json", "api-error",
   "task-write-throws"}

generateVideo_provider(p, outcome) ==
  /\ handler[p].name = "generateVideo"
  /\ handler[p].stage = "provider"
  /\ handler' = [handler EXCEPT ![p] =
       IF outcome = "video"
         THEN [@ EXCEPT !.stage = "done", !.returned = "success"]
         ELSE Thrown(@, "internal")]
  /\ result' = NoResult
  /\ UNCHANGED <<credits, users, clock, pc, call, snap, initial, spent>>

\* ---------------------------------------------- diff of a drawn update
NoDiff == [kind |-> "none"]

\* Records the extension can write: with a boolean is_active (and an
\* expires_date that disagrees with it), or without one and with an
\* expires_date that is absent, unparsable, or an instant.
Times == 1..MaxTime
EntitlementRecords ==
  { Entitlement("true", IsoDate(0)),
    Entitlement("false", IsoDate(MaxTime + 1)),
    Entitlement("absent", NoDate),
    Entitlement("absent", BadDate),
    Entitlement("absent", IsoDate(2)),
    Entitlement("absent", IsoDate(MaxTime + 1)) }
Snapshots == [KeySet -> EntitlementRecords \cup {NoEntitlement}]
\* The wall clock never runs backwards.
Readings ==
  {T \in [Slots -> Times] : \A i, j \in Slots : i < j => T[i] <= T[j]}

\* A uid that already has a balance had its onUserCreate long ago.
InitProcs ==
  /\ users = [u \in Uids |-> credits[u].exists]
  /\ clock = 1
  /\ pc = [p \in Procs |-> "idle"]
  /\ call = [p \in Procs |-> NoCall]
  /\ snap = [p \in Procs |-> NoDoc]
  /\ result = NoResult
  /\ spent = [u \in Uids |-> 0]
  /\ handler = [p \in Procs |-> NoHandler]

\* The balances a run starts from: no document, or a document left by
\* earlier calls (stamped 0, before the run's clock).
InitBalances == {<<0, 0>>, <<5, 0>>, <<0, 3>>, <<7, 3>>}
InitDocs ==
  {NoDoc} \cup
  {CreditsDoc(b[1], b[2], IF b[1] > 0 THEN 0 ELSE NoStamp, 0) : b \in InitBalances}

Init ==
  /\ credits \in [Uids -> InitDocs]
  /\ initial = credits
  /\ diff = NoDiff
  /\ InitProcs

Next ==
  /\ UNCHANGED <<diff, handler>>
  /\ \E p \in Callers :
    \/ \E u \in Uids : resetGiftCredit_get(p, u)
    \/ resetGiftCredit_commit(p)
    \/ \E u \in Uids : clearGiftCredit_get(p, u)
    \/ clearGiftCredit_commit(p)
    \/ \E u \in Uids, a \in PaidAmounts : addPaidCredit_get(p, u, a)
    \/ addPaidCredit_commit(p)
    \/ \E u \in Uids, a \in UseAmounts : useCredits_get(p, u, a)
    \/ useCredits_commit(p)
    \/ \E u \in Uids, a \in RefundAmounts : refundCredits_get(p, u, a)
    \/ refundCredits_commit(p)
    \/ \E u \in Uids : getOrCreateCreditsDoc_get(p, u)
    \/ getOrCreateCreditsDoc_set(p)
    \/ getOrCreateCreditsDoc_get2(p)
    \/ \E u \in Uids : onUserCreate_setUser(p, u)
    \/ onUserCreate_setCredits(p)

Spec == Init /\ [][Next]_vars

\* Concurrent useCredits calls only: no top-up, no reset.
NextConsume ==
  /\ UNCHANGED <<diff, handler>>
  /\ \E p \in Procs :
    \/ \E u \in Uids, a \in UseAmounts : useCredits_get(p, u, a)
    \/ useCredits_commit(p)

SpecConsume == Init /\ [][NextConsume]_vars

\* resetGiftCredit and clearGiftCredit as functions of the stored balance:
\* the prior balance is an input, drawn from PriorDocs.
PriorGift == {0, 7, 10, 100}
PriorPaid == {0, 3}
PriorDocs ==
  {NoDoc} \cup
  {CreditsDoc(g, q, r, 0) : g \in PriorGift, q \in PriorPaid, r \in {NoStamp, 0}}

InitGift ==
  /\ credits \in [Uids -> PriorDocs]
  /\ initial = credits
  /\ diff = NoDiff
  /\ InitProcs

NextGift ==
  /\ UNCHANGED <<diff, handler>>
  /\ \E p \in Callers :
    \/ \E u \in Uids : resetGiftCredit_get(p, u)
    \/ resetGiftCredit_commit(p)
    \/ \E u \in Uids : clearGiftCredit_get(p, u)
    \/ clearGiftCredit_commit(p)

SpecGift == InitGift /\ [][NextGift]_vars

\* The entitlement diff as a function of the update: the snapshot pair
\* and the instants the wall clock shows are inputs.
InitEntitlementDiff ==
  /\ credits = [u \in Uids |-> NoDoc]
  /\ initial = credits
  /\ InitProcs
  /\ \E before \in Snapshots, after \in Snapshots, T \in Readings :
       diff = [kind |-> "entitlement", before |-> before, after |-> after,
               T |-> T, done |-> FALSE,
               activated |-> <<>>, expired |-> <<>>,
               evalAfter |-> [k \in KeySet |-> "skipped"],
               evalBefore |-> [k \in KeySet |-> "skipped"]]

EntitlementDiffStep ==
  /\ diff.kind = "entitlement" /\ ~diff.done
  /\ LET ev == EntitlementDiff(diff.before, diff.after, diff.T)
     IN diff' = [diff EXCEPT
          !.done = TRUE,
          !.activated = ev.activated,
          !.expired = ev.expired,
          !.evalAfter = EvalAfter(diff.before, diff.after, diff.T),
          !.evalBefore = EvalBefore(diff.before, diff.after, diff.T)]
  /\ UNCHANGED <<credits, users, clock, pc, call, snap, result, initial,
                 spent, handler>>

SpecEntitlementDiff == InitEntitlementDiff /\ [][EntitlementDiffStep]_vars

\* The two onUpdate handlers, run by concurrent deliveries for one uid.
\* The updates they are handed: every key active or inactive in either
\* snapshot, all records judged at one instant; no product with purchases
\* before, "coins" with at most one and "gems" with none or two after.
HandledRecords == {Entitlement("true", NoDate), Entitlement("false", NoDate)}
HandledSnapshots == [KeySet -> HandledRecords]
SameInstant(t) == [j \in Slots |-> t]
SomePurchase == Purchase("p1", "s1")
HandledBefore == {[productId \in ProductSet |-> NoPurchaseList]}
HandledAfter ==
  {[productId \in ProductSet |-> IF productId = "coins" THEN c ELSE g] :
     c \in {NoPurchaseList, PurchaseList(<<SomePurchase>>)},
     g \in {NoPurchaseList, PurchaseList(<<SomePurchase, SomePurchase>>)}}


\* Both functions are triggered by every update of users/{uid}; one
\* process runs the deliveries of each.
EntitlementProcs == {1}
PurchaseProcs == {2}

NextCoordinator ==
  /\ UNCHANGED diff
  /\ \/ \E p \in EntitlementProcs :
          \/ \E u \in Uids, before \in HandledSnapshots,
                after \in HandledSnapshots :
               onEntitlementActivated_diff(p, u, before, after,
                                           SameInstant(MaxTime))
          \/ onEntitlementActivated_reset_get(p)
          \/ onEntitlementActivated_reset_commit(p)
          \/ onEntitlementActivated_clear_get(p)
          \/ onEntitlementActivated_clear_commit(p)
          \/ onEntitlementActivated_catch(p)
     \/ \E p \in PurchaseProcs :
          \/ \E u \in Uids, before \in HandledBefore, after \in HandledAfter :
               onNonSubscriptionPurchase_diff(p, u, before, after)
          \/ onNonSubscriptionPurchase_add_get(p)
          \/ onNonSubscriptionPurchase_add_commit(p)
          \/ onNonSubscriptionPurchase_catch(p)

SpecCoordinator == Init /\ [][NextCoordinator]_vars

\* The purchase diff as a function of the update.  Only the length of a
\* before list is read, so before lists repeat one purchase; after lists
\* hold purchases with an id, with a store transaction id only, or with
\* neither.
PurchaseRecords == {Purchase("p1", "s1"), Purchase(NoId, "s2"), Purchase(NoId, NoId)}
ListsOver(S) == UNION {[1..n -> S] : n \in 0..MaxPurchases}
BeforePurchases ==
  [ProductSet ->
     {NoPurchaseList} \cup {PurchaseList(l) : l \in ListsOver({Purchase("p1", "s1")})}]
AfterPurchases ==
  [ProductSet ->
     {NoPurchaseList} \cup {PurchaseList(l) : l \in ListsOver(PurchaseRecords)}]

InitPurchaseDiff ==
  /\ credits = [u \in Uids |-> NoDoc]
  /\ initial = credits
  /\ InitProcs
  /\ \E before \in BeforePurchases, after \in AfterPurchases :
       diff = [kind |-> "purchase", before |-> before, after |-> after,
               done |-> FALSE, newPurchases |-> <<>>]

PurchaseDiffStep ==
  /\ diff.kind = "purchase" /\ ~diff.done
  /\ diff' = [diff EXCEPT
       !.done = TRUE,
       !.newPurchases = PurchaseDiff(diff.before, diff.after)]
  /\ UNCHANGED <<credits, users, clock, pc, call, snap, result, initial,
                 spent, handler>>

SpecPurchaseDiff == InitPurchaseDiff /\ [][PurchaseDiffStep]_vars

\* One update of users/{uid}, delivered to onNonSubscriptionPurchase up to
\* MaxDeliveries times (the trigger is delivered at least once), by
\* deliveries that may overlap.  diff holds the notification, how often it
\* was delivered, and whether a ledger call of a delivery was rejected.
InitRedelivery ==
  /\ credits \in [Uids -> {NoDoc, CreditsDoc(7, 3, 0, 0)}]
  /\ initial = credits
  /\ InitProcs
  /\ \E before \in HandledBefore, after \in HandledAfter :
       diff = [kind |-> "notification", before |-> before, after |-> after,
               deliveries |-> 0, rejected |-> FALSE]

NextRedelivery ==
  \E p \in Callers :
    \/ /\ diff.deliveries < MaxDeliveries
       /\ \E u \in Uids :
            onNonSubscriptionPurchase_diff(p, u, diff.before, diff.after)
       /\ diff' = [diff EXCEPT !.deliveries = @ + 1]
    \/ onNonSubscriptionPurchase_add_get(p) /\ UNCHANGED diff
    \/ onNonSubscriptionPurchase_add_commit(p) /\ UNCHANGED diff
    \/ /\ onNonSubscriptionPurchase_catch(p)
       /\ diff' = [diff EXCEPT !.rejected = TRUE]

SpecRedelivery == InitRedelivery /\ [][NextRedelivery]_vars

\* ---------------------------------- amounts reaching Consume and Refund
\* useCredits of the ledger is an exported function taking any number;
\* refundCredits is reached through its callable only.
SignedAmounts == {-3, 0, USE_CREDITS_AMOUNT}
ClientAmounts == {Number(-2), Number(0), Number(2), NotANumber}
ClientUids == {"u1", "u2"}
Auths == {NoAuth} \cup Uids

NextAmounts ==
  /\ UNCHANGED <<diff, handler>>
  /\ \E p \in Callers :
       \/ \E u \in Uids, a \in SignedAmounts : useCredits_get(p, u, a)
       \/ useCredits_commit(p)
       \/ \E auth \in Auths, a \in ClientAmounts, cu \in ClientUids :
            refundCreditsCallable_get(p, auth, ClientData(a, cu))
       \/ refundCredits_commit(p)

SpecAmounts == Init /\ [][NextAmounts]_vars

\* ------------------------------------------- the useCredits callable
\* One client, signed in or not, sending one data object of its choice.
RequestAmounts == {Number(1), Number(50), NotANumber}

InitUseCallable ==
  /\ credits \in [Uids -> InitDocs]
  /\ initial = credits
  /\ InitProcs
  /\ \E auth \in Auths, a \in RequestAmounts, cu \in ClientUids :
       diff = [kind |-> "request", auth |-> auth, data |-> ClientData(a, cu)]

NextUseCallable ==
  /\ UNCHANGED <<diff, handler>>
  /\ \E p \in Callers :
       \/ useCreditsCallable_get(p, diff.auth, diff.data)
       \/ useCredits_commit(p)

SpecUseCallable == InitUseCallable /\ [][NextUseCallable]_vars

\* ------------------------- one update with activations and expiries,
\* ------------------------- and one Consume of the same uid
\* The updates whose diff has both an activated and an expired key.
MixedUpdates ==
  {s \in HandledSnapshots \X HandledSnapshots :
     LET ev == EntitlementDiff(s[1], s[2], SameInstant(MaxTime))
     IN ev.activated # <<>> /\ ev.expired # <<>>}

TransientDocs ==
  {NoDoc, CreditsDoc(0, 3, NoStamp, 0), CreditsDoc(0, 7, NoStamp, 0),
   CreditsDoc(7, 3, 0, 0)}

ConsumeProcs == {2}

InitTransient ==
  /\ credits \in [Uids -> TransientDocs]
  /\ initial = credits
  /\ InitProcs
  /\ \E s \in MixedUpdates :
       diff = [kind |-> "update", before |-> s[1], after |-> s[2]]

NextTransient ==
  /\ UNCHANGED diff
  /\ \/ \E p \in EntitlementProcs :
          \/ /\ handler[p].stage = "idle"
             /\ \E u \in Uids :
                  onEntitlementActivated_diff(p, u, diff.before, diff.after,
                                              SameInstant(MaxTime))
          \/ onEntitlementActivated_reset_get(p)
          \/ onEntitlementActivated_reset_commit(p)
          \/ onEntitlementActivated_clear_get(p)
          \/ onEntitlementActivated_clear_commit(p)
          \/ onEntitlementActivated_catch(p)
     \/ \E p \in ConsumeProcs :
          /\ UNCHANGED handler
          /\ \/ \E u \in Uids :
                  spent[u] = 0 /\ useCredits_get(p, u, USE_CREDITS_AMOUNT)
             \/ useCredits_commit(p)

SpecTransient == InitTransient /\ [][NextTransient]_vars

\* ------------------------------ two updates of one uid, in any order
\* The document goes s[1] -> s[2] -> s[3]: the first update yields only
\* activations, the second only expiries.  Each update is one invocation
\* of the handler; the platform starts them in no particular order and
\* lets them overlap.
UpdateChains ==
  {s \in HandledSnapshots \X HandledSnapshots \X HandledSnapshots :
     LET first == EntitlementDiff(s[1], s[2], SameInstant(MaxTime))
         second == EntitlementDiff(s[2], s[3], SameInstant(MaxTime))
     IN /\ first.activated # <<>> /\ first.expired = <<>>
        /\ second.activated = <<>> /\ second.expired # <<>>}

FirstUpdateProcs == {1}
SecondUpdateProcs == {2}

InitOrder ==
  /\ credits \in [Uids -> InitDocs]
  /\ initial = credits
  /\ InitProcs
  /\ \E s \in UpdateChains :
       diff = [kind |-> "updates", first |-> <<s[1], s[2]>>,
               second |-> <<s[2], s[3]>>]

NextOrder ==
  /\ UNCHANGED diff
  /\ \/ \E p \in FirstUpdateProcs, u \in Uids :
          /\ handler[p].stage = "idle"
          /\ onEntitlementActivated_diff(p, u, diff.first[1], diff.first[2],
                                         SameInstant(MaxTime))
     \/ \E p \in SecondUpdateProcs, u \in Uids :
          /\ handler[p].stage = "idle"
          /\ onEntitlementActivated_diff(p, u, diff.second[1], diff.second[2],
                                         SameInstant(MaxTime))
     \/ \E p \in FirstUpdateProcs \cup SecondUpdateProcs :
          \/ onEntitlementActivated_reset_get(p)
          \/ onEntitlementActivated_reset_commit(p)
          \/ onEntitlementActivated_clear_get(p)
          \/ onEntitlementActivated_clear_commit(p)
          \/ onEntitlementActivated_catch(p)

SpecOrder == InitOrder /\ [][NextOrder]_vars

\* ------------------------------------------------- one generateVideo
ImageUrls == {"", "https://img"}
ScriptLengths == {0, 10, MAX_SCRIPT_LENGTH + 1}
AvatarIds == {"", "avatar"}
VideoProcs == {1}

InitVideo ==
  /\ credits \in [Uids -> InitDocs]
  /\ initial = credits
  /\ InitProcs
  /\ \E auth \in Auths, i \in ImageUrls, s \in ScriptLengths, a \in AvatarIds :
       diff = [kind |-> "video", auth |-> auth, data |-> VideoRequest(i, s, a)]

NextVideo ==
  /\ UNCHANGED diff
  /\ \E p \in VideoProcs :
       \/ handler[p].stage = "idle" /\ generateVideo_auth(p, diff.auth)
       \/ generateVideo_debit_get(p)
       \/ generateVideo_debit_commit(p)
       \/ generateVideo_debit_catch(p)
       \/ generateVideo_validate(p, diff.data)
       \/ \E configured \in BOOLEAN : generateVideo_config(p, configured)
       \/ \E outcome \in ProviderOutcomes : generateVideo_provider(p, outcome)

SpecVideo == InitVideo /\ [][NextVideo]_vars

\* --------------------------------------- the monthly job on one user
RefreshRecords == EntitlementRecords \cup HandledRecords \cup {NoEntitlement}
RefreshReadings ==
  {T \in [1..Len(EntitlementKeys) -> Times] :
     \A i, j \in 1..Len(EntitlementKeys) : i < j => T[i] <= T[j]}
RefreshProcs == {1}

InitRefresh ==
  /\ credits \in [Uids -> {NoDoc, CreditsDoc(7, 3, 0, 0)}]
  /\ initial = credits
  /\ InitProcs
  /\ \E e \in [KeySet -> RefreshRecords], T \in RefreshReadings :
       diff = [kind |-> "refresh", entitlements |-> e, T |-> T]

NextRefresh ==
  /\ UNCHANGED diff
  /\ \E p \in RefreshProcs :
       \/ /\ handler[p].stage = "idle"
          /\ \E u \in Uids :
               refreshMonthlyCredits_user(p, u, diff.entitlements, diff.T)
       \/ refreshMonthlyCredits_reset_get(p)
       \/ refreshMonthlyCredits_reset_commit(p)
       \/ refreshMonthlyCredits_catch(p)

SpecRefresh == InitRefresh /\ [][NextRefresh]_vars

\* =================================================================
\* Properties
\* =================================================================
Total(d) == d.gift_credit + d.paid_credit

\* The step is the commit of p's running call of op, and it was applied
\* (only p's own step takes pc[p] from "commit" to "idle": its commit, or
\* the rejection of its transaction, whose code is not "ok").
Committed(p, op) ==
  pc[p] = "commit" /\ call[p].op = op /\ pc'[p] = "idle" /\ result'.code = "ok"

\* C1: useCredits with 0 < amount <= gift + paid is not rejected, and when
\* it commits it returns usedGift = min(gift, amount) and
\* usedPaid = amount - usedGift, stores gift - usedGift and paid - usedPaid,
\* and debits the paid bucket only when the gift bucket is drained to 0.
C1_ConsumeAllocation ==
  [][\A p \in Procs, u \in Uids, a \in UseAmounts :
      LET d == credits[u] IN
      (d.exists /\ 0 < a /\ a <= Total(d)) =>
        /\ useCredits_get(p, u, a) => pc'[p] = "commit"
        /\ (Committed(p, "useCredits") /\ call[p].uid = u /\ call[p].amount = a) =>
             /\ result'.op = "useCredits" /\ result'.code = "ok"
             /\ result'.usedGift = (IF d.gift_credit < a THEN d.gift_credit ELSE a)
             /\ result'.usedPaid = a - result'.usedGift
             /\ credits'[u].gift_credit = d.gift_credit - result'.usedGift
             /\ credits'[u].paid_credit = d.paid_credit - result'.usedPaid
             /\ Total(credits'[u]) = Total(d) - a
             /\ (result'.usedPaid > 0 => credits'[u].gift_credit = 0)
             /\ credits'[u].last_gift_reset = d.last_gift_reset
             /\ credits'[u].updatedAt = clock
    ]_vars

\* A consume that took from both buckets and left the gift bucket empty.
C1_Witness ==
  /\ result.op = "useCredits" /\ result.code = "ok"
  /\ result.usedGift > 0 /\ result.usedPaid > 0
  /\ credits[result.uid].gift_credit = 0

\* C2: useCredits on an existing balance with amount > gift + paid fails
\* with failed-precondition and the document (gift_credit, paid_credit,
\* last_gift_reset, updatedAt) is the same after the call; no write is
\* left pending.
C2_InsufficientNoMutation ==
  [][\A p \in Procs, u \in Uids, a \in UseAmounts :
      (credits[u].exists /\ a > Total(credits[u]) /\ useCredits_get(p, u, a)) =>
        /\ result'.op = "useCredits" /\ result'.code = "failed-precondition"
        /\ credits'[u] = credits[u]
        /\ pc'[p] = "idle"
    ]_vars

\* A rejected consume against a non-empty balance.
C2_Witness ==
  /\ result.op = "useCredits" /\ result.code = "failed-precondition"
  /\ credits[result.uid].exists
  /\ Total(credits[result.uid]) > 0
  /\ result.amount > Total(credits[result.uid])

\* C3: with only useCredits calls running (no top-up), the amounts of the
\* calls that succeeded never add up to more than the gift + paid total the
\* run started with; two useCredits(uid, 3) against gift=5, paid=0 never
\* both succeed.
C3_NoOverspend ==
  \A u \in Uids :
    /\ spent[u] <= Total(initial[u])
    /\ spent[u] + Total(credits[u]) = Total(initial[u])

\* Two useCredits(uid, 3) read gift=5, paid=0; one committed, the commit of
\* the other was refused.
C3_Witness ==
  \E u \in Uids, p \in Procs :
    /\ initial[u].gift_credit = 5 /\ initial[u].paid_credit = 0
    /\ spent[u] = 3
    /\ pc[p] = "retry" /\ call[p].op = "useCredits" /\ call[p].amount = 3

\* C4: in every reachable state every existing balance has
\* gift_credit >= 0 and paid_credit >= 0, both integers.
C4_NonNegative ==
  \A u \in Uids :
    credits[u].exists =>
      /\ credits[u].gift_credit \in Nat
      /\ credits[u].paid_credit \in Nat

\* A refund larger than the paid bucket was applied to a balance that a
\* consume had already drawn on.
C4_Witness ==
  \E u \in Uids :
    /\ result.op = "refundCredits" /\ result.code = "ok" /\ result.uid = u
    /\ spent[u] > 0
    /\ result.amount > initial[u].paid_credit
    /\ credits[u].paid_credit = 0

\* C5: no plain write loses an update: the set() of getOrCreateCreditsDoc
\* and of onUserCreate never changes gift_credit or paid_credit of a
\* document that exists when the set() is applied.
C5_NoLostUpdate ==
  [][\A p \in Procs :
      (getOrCreateCreditsDoc_set(p) \/ onUserCreate_setCredits(p)) =>
        \A u \in Uids :
          credits[u].exists =>
            /\ credits'[u].gift_credit = credits[u].gift_credit
            /\ credits'[u].paid_credit = credits[u].paid_credit
    ]_vars

\* C6: every ledger call takes effect in one step: the step that applies
\* its commit writes exactly what its body yields on the document stored at
\* that moment and returns the matching response; a call that fails returns
\* what its body yields on the stored document and writes nothing; a
\* refused commit writes nothing.
LedgerOps ==
  {"resetGiftCredit", "clearGiftCredit", "addPaidCredit", "useCredits",
   "refundCredits"}

C6_Linearized ==
  [][/\ \A p \in Procs, op \in LedgerOps :
      /\ Committed(p, op) =>
           LET u == call[p].uid
               a == call[p].amount
               out == Body(op, credits[u], a, clock)
           IN /\ credits' = [credits EXCEPT ![u] = out.doc]
              /\ result'.op = op /\ result'.code = out.code
              /\ result'.usedGift = out.usedGift
              /\ result'.usedPaid = out.usedPaid
      /\ (pc[p] = "commit" /\ pc'[p] = "retry") => credits' = credits
      /\ (pc[p] \in {"idle", "retry"} /\ pc'[p] = "commit") => credits' = credits
     /\ (result'.op \in LedgerOps /\ result'.code # "ok") =>
          /\ credits' = credits
          /\ result'.code =
               Body(result'.op, credits[result'.uid], result'.amount, clock).code
    ]_vars

\* An addPaidCredit whose commit was refused because another call wrote
\* the document after it had read it.
C6_Witness ==
  \E p \in Procs :
    /\ pc[p] = "retry" /\ call[p].op = "addPaidCredit"
    /\ credits[call[p].uid] # initial[call[p].uid]

\* C7: refundCredits on an existing balance sets paid_credit to
\* max(0, paid_credit - amount) and leaves gift_credit unchanged.
C7_RefundClamped ==
  [][\A p \in Procs :
      Committed(p, "refundCredits") =>
        LET u == call[p].uid
            a == call[p].amount
            d == credits[u]
        IN /\ d.exists
           /\ result'.code = "ok"
           /\ credits'[u].paid_credit =
                (IF d.paid_credit - a > 0 THEN d.paid_credit - a ELSE 0)
           /\ credits'[u].gift_credit = d.gift_credit
           /\ (d.paid_credit = 3 /\ a = 5 => credits'[u].paid_credit = 0)
           /\ (d.paid_credit = 3 /\ a = 2 => credits'[u].paid_credit = 1)
    ]_vars

\* refundCredits(uid, 5) on gift=7, paid=3 left gift=7, paid=0.
C7_Witness ==
  \E u \in Uids :
    /\ result.op = "refundCredits" /\ result.code = "ok" /\ result.uid = u
    /\ result.amount = 5
    /\ initial[u].gift_credit = 7 /\ initial[u].paid_credit = 3
    /\ credits[u].gift_credit = 7 /\ credits[u].paid_credit = 0

\* C8: refundCredits for a uid without a document fails with not-found and
\* the uid has no document after the call.
C8_RefundNotFound ==
  [][\A p \in Procs, u \in Uids, a \in RefundAmounts :
      (~credits[u].exists /\ refundCredits_get(p, u, a)) =>
        /\ result'.op = "refundCredits" /\ result'.code = "not-found"
        /\ ~credits'[u].exists
        /\ pc'[p] = "idle"
    ]_vars

C8_Witness ==
  /\ result.op = "refundCredits" /\ result.code = "not-found"
  /\ ~credits[result.uid].exists

\* C9 as claimed: useCredits never fails with not-found.
C9_ConsumeNeverNotFound ==
  result.op = "useCredits" => result.code # "not-found"

\* C9 as amended: useCredits for a uid without a document fails with
\* not-found, which the callable passes on as not-found, and creates no
\* document.
C9_ConsumeNotFound ==
  [][\A p \in Procs, u \in Uids, a \in UseAmounts :
      (~credits[u].exists /\ useCredits_get(p, u, a)) =>
        /\ result'.op = "useCredits" /\ result'.code = "not-found"
        /\ useCreditsCallableCode(result'.code) = "not-found"
        /\ ~credits'[u].exists
        /\ pc'[p] = "idle"
    ]_vars

C9_Witness ==
  /\ result.op = "useCredits" /\ result.code = "not-found"
  /\ result.amount = USE_CREDITS_AMOUNT
  /\ ~credits[result.uid].exists

\* C10: resetGiftCredit sets gift_credit to MONTHLY_GIFT_CREDIT = 10
\* whatever the prior value, stamps last_gift_reset with the time of the
\* write, keeps paid_credit of an existing balance and creates an absent
\* balance with paid_credit = 0.
C10_ResetGift ==
  [][\A p \in Procs :
      Committed(p, "resetGiftCredit") =>
        LET u == call[p].uid
            d == credits[u]
            e == credits'[u]
        IN /\ e.exists
           /\ e.gift_credit = 10
           /\ e.gift_credit = MONTHLY_GIFT_CREDIT
           /\ e.last_gift_reset = clock
           /\ e.last_gift_reset > d.last_gift_reset
           /\ e.paid_credit = (IF d.exists THEN d.paid_credit ELSE 0)
    ]_vars

\* A reset brought gift=100, paid=3 down to gift=10, paid=3.
C10_Witness ==
  \E u \in Uids :
    /\ result.op = "resetGiftCredit" /\ result.code = "ok" /\ result.uid = u
    /\ initial[u].gift_credit = 100 /\ initial[u].paid_credit = 3
    /\ credits[u].gift_credit = 10 /\ credits[u].paid_credit = 3

\* C11: clearGiftCredit sets gift_credit to 0 whatever the prior value and
\* leaves paid_credit and last_gift_reset of an existing balance as they
\* were; an absent balance is created empty, with no last_gift_reset.
C11_ClearGift ==
  [][\A p \in Procs :
      Committed(p, "clearGiftCredit") =>
        LET u == call[p].uid
            d == credits[u]
            e == credits'[u]
        IN /\ e.exists
           /\ e.gift_credit = 0
           /\ (d.exists =>
                 /\ e.paid_credit = d.paid_credit
                 /\ e.last_gift_reset = d.last_gift_reset)
           /\ (~d.exists =>
                 /\ e.paid_credit = 0
                 /\ e.last_gift_reset = NoStamp)
    ]_vars

\* A clear brought gift=100, paid=3, last_gift_reset=0 down to gift=0 with
\* paid and last_gift_reset as before.
C11_Witness ==
  \E u \in Uids :
    /\ result.op = "clearGiftCredit" /\ result.code = "ok" /\ result.uid = u
    /\ initial[u].gift_credit = 100 /\ initial[u].paid_credit = 3
    /\ initial[u].last_gift_reset = 0
    /\ credits[u].gift_credit = 0 /\ credits[u].paid_credit = 3
    /\ credits[u].last_gift_reset = 0

\* C12: addPaidCredit(uid, amount) raises paid_credit by exactly amount and
\* leaves gift_credit as it was; for a uid without a balance it creates
\* one with gift_credit = 0 and paid_credit = amount.
C12_AddPaid ==
  [][\A p \in Procs :
      Committed(p, "addPaidCredit") =>
        LET u == call[p].uid
            a == call[p].amount
            d == credits[u]
            e == credits'[u]
        IN /\ e.exists
           /\ result'.code = "ok"
           /\ (d.exists =>
                 /\ e.paid_credit = d.paid_credit + a
                 /\ e.gift_credit = d.gift_credit
                 /\ e.last_gift_reset = d.last_gift_reset)
           /\ (~d.exists =>
                 /\ e.paid_credit = a
                 /\ e.gift_credit = 0)
    ]_vars

\* addPaidCredit(uid, 10) on gift=7, paid=3 left gift=7, paid=13.
C12_Witness ==
  \E u \in Uids :
    /\ result.op = "addPaidCredit" /\ result.code = "ok" /\ result.uid = u
    /\ result.amount = 10
    /\ initial[u].gift_credit = 7 /\ initial[u].paid_credit = 3
    /\ credits[u].gift_credit = 7 /\ credits[u].paid_credit = 13

\* Activity of a record at one instant, as the specification words it: the
\* boolean is_active when there is one, otherwise "expires_date names an
\* instant strictly later than now"; an absent record is inactive.
ActiveAt(e, now) ==
  /\ e.present
  /\ IF e.is_active = "true" THEN TRUE
     ELSE IF e.is_active = "false" THEN FALSE
     ELSE e.expires_date.kind = "iso" /\ e.expires_date.t > now

OneInstant(T) == \A i, j \in Slots : T[i] = T[j]

\* C13: when every record of an update is judged at one instant, the diff
\* reports as activated the keys of after that are active now and were not
\* (an absent before record counting as inactive), and as expired the keys
\* of after that were active and are not, together with the keys of before
\* that are missing from after and were active; every key is reported at
\* most once and a key whose activity did not change is not reported.
C13_EntitlementDiff ==
  (diff.kind = "entitlement" /\ diff.done /\ OneInstant(diff.T)) =>
    LET now == diff.T[1]
        before == diff.before
        after == diff.after
        was(k) == ActiveAt(before[k], now)
        is(k) == ActiveAt(after[k], now)
    IN /\ Range(diff.activated) =
            {k \in KeySet : after[k].present /\ ~was(k) /\ is(k)}
       /\ Range(diff.expired) =
            {k \in KeySet : after[k].present /\ was(k) /\ ~is(k)} \cup
            {k \in KeySet : before[k].present /\ ~after[k].present /\ was(k)}
       /\ Len(diff.activated) = Cardinality(Range(diff.activated))
       /\ Len(diff.expired) = Cardinality(Range(diff.expired))
       /\ \A k \in KeySet :
            was(k) = is(k) /\ after[k].present =>
              k \notin Range(diff.activated) \cup Range(diff.expired)

\* One update, judged at one instant, in which "premium" appears active
\* and the active "pro" is removed.
C13_Witness ==
  /\ diff.kind = "entitlement" /\ diff.done /\ OneInstant(diff.T)
  /\ ~diff.before["premium"].present
  /\ diff.before["pro"].present /\ ~diff.after["pro"].present
  /\ diff.activated = <<"premium">>
  /\ diff.expired = <<"pro">>

HandledEntitlements(p) ==
  handler[p].name = "entitlement" /\ handler[p].stage = "done"

\* C15: for one update the entitlement handler calls resetGiftCredit
\* exactly once when activatedEntitlements is not empty and not at all
\* otherwise, and clearGiftCredit exactly once when expiredEntitlements is
\* not empty and not at all otherwise, however many keys each holds; with
\* both empty it makes no ledger call.
C15_CallsPerSet ==
  \A p \in Procs :
    HandledEntitlements(p) =>
      /\ handler[p].resets =
           (IF handler[p].activatedEntitlements # <<>> THEN 1 ELSE 0)
      /\ handler[p].clears =
           (IF handler[p].expiredEntitlements # <<>> THEN 1 ELSE 0)

\* C16: when one update has both activated and expired keys, the handler
\* has called resetGiftCredit and then clearGiftCredit by the time it
\* returns, and gift_credit is 0 then.
C16_ExpiryOverrides ==
  \A p \in Procs :
    ( /\ HandledEntitlements(p)
      /\ handler[p].activatedEntitlements # <<>>
      /\ handler[p].expiredEntitlements # <<>> ) =>
      /\ handler[p].resets = 1
      /\ handler[p].clears = 1
      /\ credits[handler[p].uid].exists
      /\ credits[handler[p].uid].gift_credit = 0

\* C17: the purchase diff holds exactly one entry for each product of
\* after whose list is longer than the product's list in before (a product
\* missing from before counting as the empty list) and none for any other
\* product; the entry's purchaseId is the id of the last purchase of the
\* after list, or its store_transaction_id when the id is missing.  Equal
\* snapshots give no entry.
C17_PurchaseDiff ==
  (diff.kind = "purchase" /\ diff.done) =>
    LET before == diff.before
        after == diff.after
        new == diff.newPurchases
        grown == {k \in ProductSet :
                    /\ after[k].present
                    /\ Len(after[k].purchases) >
                         (IF before[k].present
                            THEN Len(before[k].purchases) ELSE 0)}
    IN /\ {new[i].productId : i \in 1..Len(new)} = grown
       /\ Len(new) = Cardinality(grown)
       /\ \A i \in 1..Len(new) :
            LET list == after[new[i].productId].purchases
                last == list[Len(list)]
            IN new[i].purchaseId =
                 (IF last.id # NoId THEN last.id ELSE last.store_transaction_id)
       /\ (before = after => new = <<>>)

\* One diff in which "coins" grew by two purchases, the last without an
\* id, and "gems" shrank: one entry, for "coins", with the store
\* transaction id.
C17_Witness ==
  /\ diff.kind = "purchase" /\ diff.done
  /\ ~diff.before["coins"].present
  /\ Len(diff.after["coins"].purchases) = 2
  /\ Len(diff.before["gems"].purchases) > Len(diff.after["gems"].purchases)
  /\ diff.after["gems"].present
  /\ diff.newPurchases = <<[productId |-> "coins", purchaseId |-> "s2"]>>

HandledPurchases(p) ==
  handler[p].name = "purchase" /\ handler[p].stage = "done"

\* C18: the purchase handler calls addPaidCredit once for each entry of the
\* purchase diff, never more, each call with amount 10 and each committed
\* call raising paid_credit by exactly 10; so an update handled without a
\* failed call has raised paid_credit by 10 for each product whose list
\* grew, whatever the number of purchases the list grew by.
C18_TenPerProduct ==
  [][\A p \in Procs :
       /\ handler'[p].name = "purchase" =>
            handler'[p].adds <= handler'[p].newPurchases
       /\ ( /\ handler'[p].name = "purchase" /\ handler'[p].stage = "done"
            /\ ~handler'[p].failed ) =>
            handler'[p].adds = handler'[p].newPurchases
       /\ handler[p].name = "purchase" /\ Committed(p, "addPaidCredit") =>
            LET u == call[p].uid
            IN /\ call[p].amount = 10
               /\ u = handler[p].uid
               /\ credits'[u].paid_credit =
                    (IF credits[u].exists THEN credits[u].paid_credit ELSE 0) + 10
    ]_vars

\* An update in which one product's list grew by two purchases was handled
\* with a single addPaidCredit, and paid_credit went from 3 to 13.
C18_Witness ==
  \E p \in Procs :
    /\ HandledPurchases(p) /\ ~handler[p].failed
    /\ handler[p].newPurchases = 1 /\ handler[p].grewBy = 2
    /\ handler[p].adds = 1
    /\ initial[handler[p].uid].paid_credit = 3
    /\ credits[handler[p].uid].paid_credit = 13

\* The step is the failure of the ledger call that handler p is awaiting.
CallFailed(p) ==
  /\ handler[p].stage \in {"reset", "clear", "add"}
  /\ pc[p] \in {"commit", "retry"} /\ pc'[p] = "idle"
  /\ result'.code \notin {"ok", "none"}

\* C19: a ledger call that fails while a handler (entitlement or purchase)
\* handles an update is caught in the handler: the handler returns null at
\* once, no error leaves it, and the invocation makes no further ledger
\* call, neither of the failed call nor of any other.
C19_FailureCaught ==
  [][\A p \in Procs :
       /\ handler'[p].returned \in {"none", "null"}
       /\ CallFailed(p) =>
            /\ handler'[p].stage = "done"
            /\ handler'[p].returned = "null"
            /\ handler'[p].failed
            /\ handler'[p].resets = handler[p].resets
            /\ handler'[p].clears = handler[p].clears
            /\ handler'[p].adds = handler[p].adds
            /\ credits' = credits
       /\ handler[p].failed =>
            /\ pc[p] = "idle" /\ handler[p].stage = "done"
            /\ (handler'[p] # handler[p] =>
                  /\ ~handler'[p].failed
                  /\ handler'[p].resets = 0
                  /\ handler'[p].clears = 0
                  /\ handler'[p].adds = 0
                  /\ pc'[p] = "idle")
    ]_vars

\* The purchase handler returned null after its first addPaidCredit of two
\* was rejected; the second was never called and nothing was written.
C19_Witness ==
  \E p \in Procs :
    /\ HandledPurchases(p) /\ handler[p].failed
    /\ handler[p].returned = "null"
    /\ handler[p].newPurchases = 2 /\ handler[p].adds = 1
    /\ result.op = "addPaidCredit" /\ result.code = "aborted"
    /\ credits = initial

\* The balance after the call that has just committed is executed once
\* more with the same arguments: the document it writes, or the balance as
\* it stands when the second execution throws.
Again(op, u, a) ==
  LET out == Body(op, credits'[u], a, clock')
  IN IF out.code = "ok" THEN out.doc ELSE credits'[u]

SameBalance(d, e) ==
  d.gift_credit = e.gift_credit /\ d.paid_credit = e.paid_credit

\* C20 as stated: resetGiftCredit, clearGiftCredit and useCredits are each
\* idempotent: executing the call a second time right after the first
\* leaves the gift_credit and paid_credit the first execution left.
C20_AllIdempotent ==
  [][\A p \in Procs :
      \A op \in {"resetGiftCredit", "clearGiftCredit", "useCredits"} :
        Committed(p, op) =>
          SameBalance(Again(op, call[p].uid, call[p].amount),
                      credits'[call[p].uid])
    ]_vars

\* C20, amended: resetGiftCredit and clearGiftCredit are idempotent; a
\* second useCredits is not: it either fails with failed-precondition and
\* leaves the balance, or succeeds and debits the amount once more.
C20_ResetClearIdempotent ==
  [][\A p \in Procs :
      LET u == call[p].uid
          a == call[p].amount
      IN /\ \A op \in {"resetGiftCredit", "clearGiftCredit"} :
              Committed(p, op) => SameBalance(Again(op, u, a), credits'[u])
         /\ Committed(p, "useCredits") =>
              LET second == Body("useCredits", credits'[u], a, clock')
              IN /\ second.code \in {"ok", "failed-precondition"}
                 /\ (second.code = "ok") = (Total(credits'[u]) >= a)
                 /\ second.code = "ok" =>
                      Total(second.doc) = Total(credits'[u]) - a
    ]_vars

\* A resetGiftCredit has committed (the last write stamped last_gift_reset)
\* and a second resetGiftCredit has read the balance it left.
C20_Witness ==
  \E p \in Procs, u \in Uids :
    /\ pc[p] = "commit" /\ call[p].op = "resetGiftCredit" /\ call[p].uid = u
    /\ snap[p] = credits[u]
    /\ credits[u].gift_credit = 10
    /\ credits[u].updatedAt >= 1
    /\ credits[u].last_gift_reset = credits[u].updatedAt

\* C21: the credit of the purchase handler is additive and not
\* deduplicated: once k deliveries of one notification have returned, none
\* with a rejected call, paid_credit has risen by 10 for every grown
\* product of the notification and every delivery; nothing the first
\* delivery wrote keeps a later one from crediting again.
C21_RedeliveryCreditsAgain ==
  ( /\ diff.kind = "notification" /\ ~diff.rejected
    /\ \A p \in Procs : handler[p].stage \in {"idle", "done"} ) =>
    \A u \in Uids :
      LET n == Len(PurchaseDiff(diff.before, diff.after))
          k == diff.deliveries
      IN /\ credits[u].paid_credit = initial[u].paid_credit + 10 * k * n
         /\ credits[u].gift_credit = initial[u].gift_credit

\* The notification "coins gained a purchase" was delivered twice and
\* paid_credit went from 3 to 23.
C21_Witness ==
  /\ diff.kind = "notification" /\ ~diff.rejected
  /\ diff.deliveries = 2
  /\ Len(PurchaseDiff(diff.before, diff.after)) = 1
  /\ \A p \in Procs : handler[p].stage \in {"idle", "done"}
  /\ \E u \in Uids :
       initial[u].paid_credit = 3 /\ credits[u].paid_credit = 23

\* C22: a key whose record is the same in before and after is reported
\* neither as activated nor as expired, whatever its expires_date is
\* relative to the clock.
C22_UnchangedRecordNoEvent ==
  (diff.kind = "entitlement" /\ diff.done) =>
    \A k \in KeySet :
      diff.after[k].present /\ diff.before[k] = diff.after[k] =>
        k \notin Range(diff.activated) \cup Range(diff.expired)

C24_FixedDebit ==
  [][ (result'.op = "useCredits" /\ result'.code = "ok")
        => /\ result'.uid = diff.auth
           /\ result'.amount = USE_CREDITS_AMOUNT
           /\ result'.usedGift + result'.usedPaid = USE_CREDITS_AMOUNT
           /\ Total(credits'[diff.auth])
                = Total(credits[diff.auth]) - USE_CREDITS_AMOUNT
           /\ \A u \in Uids \ {diff.auth} : credits'[u] = credits[u] ]_vars

\* A client that asked for 50 credits of another uid was served 5 of its own.
C24_Witness ==
  /\ diff.kind = "request"
  /\ diff.data = ClientData(Number(50), "u2")
  /\ result.op = "useCredits"
  /\ result.code = "ok"
  /\ result.uid = "u1"
  /\ initial["u1"].exists
  /\ Total(credits["u1"]) = Total(initial["u1"]) - USE_CREDITS_AMOUNT

\* paid_credit when the update only clears the gift bucket and the Consume
\* runs before or after the clear.
ClearOnlyPaid(d) ==
  LET cleared == clearGiftCreditBody(d, 0).doc
      consumed == useCreditsBody(d, USE_CREDITS_AMOUNT, 0).doc
  IN {useCreditsBody(cleared, USE_CREDITS_AMOUNT, 0).doc.paid_credit,
      clearGiftCreditBody(consumed, 0).doc.paid_credit}

\* C25: when an update has both activated and expired keys, a concurrent
\* Consume is never served from the gift credits that ResetGift grants
\* before ClearGift removes them: once the reset and the Consume are done,
\* paid_credit (which the clear never touches) is what it would be had the
\* update only cleared the gift bucket.
C25_TransientGiftUnspendable ==
  \A p \in EntitlementProcs :
    LET h == handler[p]
        u == h.uid
    IN (/\ h.name = "entitlement"
        /\ h.resets = 1
        /\ h.stage \in {"clear", "done"}
        /\ ~h.failed
        /\ spent[u] = USE_CREDITS_AMOUNT)
         => credits[u].paid_credit \in ClearOnlyPaid(initial[u])

\* Both updates have been handled and no ledger call of either was rejected.
BothHandled ==
  \A p \in FirstUpdateProcs \cup SecondUpdateProcs :
    /\ handler[p].name = "entitlement"
    /\ handler[p].stage = "done"
    /\ ~handler[p].failed

\* C26: when an activation-only update and the expiry-only update that
\* follows it are handled concurrently or out of delivery order, the final
\* gift_credit is still the one of delivery order, 0.
C26_OrderIndependent ==
  BothHandled => \A u \in Uids : credits[u].gift_credit = 0

\* The record of key k is the same in both snapshots, was active at an
\* instant before the update is handled, and is past its expires_date at
\* every clock reading of the handling.
LapsedUnchanged(k) ==
  /\ diff.after[k].present
  /\ diff.before[k] = diff.after[k]
  /\ \E t0 \in Times :
       /\ ActiveAt(diff.after[k], t0)
       /\ \A s \in Slots : t0 < diff.T[s]
  /\ \A s \in Slots : ~ActiveAt(diff.after[k], diff.T[s])

\* C27: a key whose unchanged record was active when an earlier update was
\* handled and whose expires_date has passed when a later update is
\* handled is reported as expired by that later update.
C27_LapseDetected ==
  (diff.kind = "entitlement" /\ diff.done) =>
    \A k \in KeySet : LapsedUnchanged(k) => k \in Range(diff.expired)

\* C28: whenever generateVideo fails, the caller's gift_credit and
\* paid_credit are what they were before the call.
C28_FailureRestoresBalance ==
  \A p \in VideoProcs :
    (/\ handler[p].name = "generateVideo"
     /\ handler[p].stage = "done"
     /\ handler[p].failed
     /\ diff.auth # NoAuth)
      => SameBalance(credits[diff.auth], initial[diff.auth])

\* Some entitlement of the user is active for the diff engine, each record
\* judged at the instant the job looks at it.
ActiveForDiff(entitlements, T) ==
  \E i \in 1..Len(EntitlementKeys) :
    /\ entitlements[EntitlementKeys[i]].present
    /\ isEntitlementActive(entitlements[EntitlementKeys[i]], T[i])

\* C29: refreshMonthlyCredits calls resetGiftCredit for a user exactly when
\* one of the user's entitlements is active under the isEntitlementActive
\* of the entitlement diff (is_active first, else expires_date).
C29_RefreshAgreesWithDiff ==
  \A p \in RefreshProcs :
    (handler[p].name = "refresh" /\ handler[p].stage = "done")
      => (handler[p].resets = 1 <=> ActiveForDiff(diff.entitlements, diff.T))

\* The entitlement trigger (e) and the purchase trigger (q) have both
\* returned without a failed call, each made at least one ledger call, and
\* their calls are all the writes the balance has seen.
BothTriggersDone(e, q) ==
  /\ handler[e].name = "entitlement" /\ handler[q].name = "purchase"
  /\ handler[e].stage = "done" /\ handler[q].stage = "done"
  /\ ~handler[e].failed /\ ~handler[q].failed
  /\ handler[e].resets + handler[e].clears >= 1
  /\ handler[q].adds >= 1
  /\ clock - 1 = handler[e].resets + handler[e].clears + handler[q].adds

\* C30: the gift-side and the paid-side mutations commute: when the
\* entitlement trigger and the purchase trigger both run on one uid, from
\* any balance or none, their transactions interleaved in any order, the
\* balance ends with the gift_credit of the gift-side calls alone and the
\* paid_credit of the paid-side calls alone.
C30_GiftAndPaidCommute ==
  \A e \in EntitlementProcs, q \in PurchaseProcs :
    BothTriggersDone(e, q) =>
      LET u == handler[e].uid
      IN /\ credits[u].exists
         /\ credits[u].gift_credit =
              (IF handler[e].clears = 1 THEN 0 ELSE MONTHLY_GIFT_CREDIT)
         /\ credits[u].paid_credit =
              initial[u].paid_credit
                + NON_SUBSCRIPTION_PURCHASE_CREDIT * handler[q].adds

\* addPaidCredit committed first and resetGiftCredit second (its stamp is
\* the later one), on a uid that had no balance: gift 10, paid 10.
C30_Witness ==
  \E e \in EntitlementProcs, q \in PurchaseProcs :
    /\ BothTriggersDone(e, q)
    /\ handler[e].resets = 1 /\ handler[q].adds = 1
    /\ ~initial[handler[e].uid].exists
    /\ credits[handler[e].uid].last_gift_reset = 2
    /\ credits[handler[e].uid].gift_credit = 10
    /\ credits[handler[e].uid].paid_credit = 10

====
